---- MODULE Spec2Model ----
(***************************************************************************)
(* A state-machine model of the After Effects browser of this repository:  *)
(* src/py_ae.py and its later revision src/py_ae_v3.py.  Both files define *)
(* a class AfterEffectsPipeline with the same handlers; the variable       *)
(* `program` says which of the two files is running.  Definitions named    *)
(* v3_... model src/py_ae_v3.py, the others src/py_ae.py.                  *)
(*                                                                         *)
(* Conventions.                                                            *)
(*  - A text (project name, asset name, search text) is a sequence of       *)
(*    characters, so that lower() and the `in` substring test are computed.*)
(*  - A path is a record [dir, name]; the string form of a path (str(),    *)
(*    as_posix(), QTableWidgetItem text, JSON) is the sequence             *)
(*    <<dir, name>>.  PathStr and StrPath are the two conversions.         *)
(*  - A QTableWidget is the sequence of its rows, row 0 first; a row's     *)
(*    Actions widget is the argument its Delete button was connected with. *)
(*    The view's automatic re-sorting (setSortingEnabled) is Qt's own and  *)
(*    is not modelled: insertRow(rowCount()) appends, removeRow(i) closes   *)
(*    the gap.                                                             *)
(*  - A handler that raises stops where it raises: what it did before      *)
(*    stays done, nothing after it happens.  `last` records the handler    *)
(*    that ran last, the inputs it drew from the user and the environment, *)
(*    and how it ended.                                                    *)
(***************************************************************************)
EXTENDS Naturals, Sequences, FiniteSets, TLC

VARIABLES
    program,                \* "py_ae" | "py_ae_v3": which source file runs
    window_open,            \* the AfterEffectsPipeline widget exists
    disk,                   \* the files on disk: path -> [data, mtime]
    dirs,                   \* the directories that exist
    settings,               \* QSettings("YourOrganization", "AfterEffectsPipeline")
    project_ini,            \* <title>ProjectSettings.ini, key project_table
    asset_ini,              \* <title>AssetsSettings.ini, key imported_assets_table
    projects_table,         \* self.projects_table / self.last_projects_table
    last_project_files,     \* self.last_project_files (py_ae_v3.py)
    last_project_directory, \* self.last_project_directory
    imported_assets_table,  \* self.imported_assets_table
    imported_assets,        \* self.imported_assets (py_ae_v3.py)
    asset_search_text,      \* self.asset_search_bar.text()
    scripts,                \* the .jsx files written: path -> content
    commands,               \* the commands given to run_after_effects_command_async
    process,                \* self.process: the QProcess started last, or None
    threads,                \* the AfterEffectsThread workers that left run()
    last                    \* the handler that ran last, its inputs and outcome

vars == <<program, window_open, disk, dirs, settings, project_ini, asset_ini,
          projects_table, last_project_files, last_project_directory,
          imported_assets_table, imported_assets, asset_search_text,
          scripts, commands, process, threads, last>>

projectVars == <<project_ini, projects_table, last_project_files,
                 last_project_directory, process>>

assetVars == <<asset_ini, imported_assets_table, imported_assets, asset_search_text,
               scripts, commands>>

(***************************************************************************)
(* Bounds of the model.                                                    *)
(***************************************************************************)
MaxRows == 3
MaxAssetRows == 2
MaxTextLen == 2
MaxScripts == 3

\* Python's None, and the value of a QSettings key that was never written
None == [none |-> TRUE]

(***************************************************************************)
(* Texts.                                                                  *)
(***************************************************************************)
Chars == {"a", "A", "b"}

LowerChar(c) == IF c = "A" THEN "a" ELSE c

\* str.lower()
Lower(s) == [i \in 1..Len(s) |-> LowerChar(s[i])]

\* Python's `s in t` for two str
IsSubstring(s, t) ==
    \E i \in 0..Len(t) :
        /\ i + Len(s) <= Len(t)
        /\ SubSeq(t, i + 1, i + Len(s)) = s

Texts(n) == UNION {[1..k -> Chars] : k \in 0..n}

SearchTexts == Texts(MaxTextLen)

\* The names a user types for a new project, and the empty name.
ProjectNames == {<<"a">>, <<"A", "b">>}

\* The times the clock shows when a file is written or a row is made.
Times == {"t1", "t2"}

\* getpass.getuser()
CurrentUser == "marty"

(***************************************************************************)
(* Paths and the filesystem.                                               *)
(***************************************************************************)
MkPath(d, n) == [dir |-> d, name |-> n]

\* str(path), path.as_posix()
PathStr(p) == <<p.dir, p.name>>

\* Path(text)
StrPath(s) == MkPath(s[1], s[2])

\* Path.exists() / os.path.exists() of a file path
Exists(p) == p \in DOMAIN disk

\* QSettings.value(key, default) of a key holding v: a key that was written
\* holds [text |-> its text]
SettingText(v, default) == IF v = None THEN default ELSE v.text

\* QSettings(...).value("projectsFolder", "default/path/to/projects")
ProjectsFolder == SettingText(settings.projectsFolder, "default/path/to/projects")

\* A project file that was made outside the program.
ForeignProject == MkPath("shots", <<"b", ".aep">>)

\* The files a user has at hand to import.
AssetNames == {<<"A", "b">>, <<"b">>}

\* Path(Path(__file__).parent, 'Blank_Project.aep'), shipped with the program
TemplatePath == MkPath("app", <<"Blank_Project", ".aep">>)

\* shutil.copyfile(src, dst) / shutil.copy(src, dst) at time t: dst gets the
\* data of src and is modified at t
CopyFile(d, src, dst, t) ==
    [p \in DOMAIN d \cup {dst} |->
        IF p = dst THEN [data |-> d[src].data, mtime |-> t] ELSE d[p]]

\* datetime.fromtimestamp(path.stat().st_mtime).strftime(...)
LastModified(d, path) == d[path].mtime

\* os.remove(path)
RemoveFile(d, path) == [p \in DOMAIN d \ {path} |-> d[p]]

\* QTableWidget.removeRow(index), index counted from 0
RemoveAt(s, index) == SubSeq(s, 1, index) \o SubSeq(s, index + 2, Len(s))

(***************************************************************************)
(* src/py_ae.py: the projects table.                                       *)
(***************************************************************************)

\* A row of the projects table as add_project_row builds it: the four text
\* items of row_data, and the row index its Delete button was connected with.
ProjectRow(row_data, row_index) ==
    [project_name |-> row_data.project_name,
     file_path |-> row_data.file_path,
     last_modified |-> row_data.last_modified,
     created_by |-> row_data.created_by,
     delete_index |-> row_index]

\* The four text items of a row, under their header labels
\* (what _collect_table_data reads back from one row).
RowData(row) ==
    [project_name |-> row.project_name,
     file_path |-> row.file_path,
     last_modified |-> row.last_modified,
     created_by |-> row.created_by]

add_project_row(table, row_data) ==
    Append(table, ProjectRow(row_data, Len(table)))

remove_row(table, index) ==
    IF Len(table) > index THEN RemoveAt(table, index) ELSE table

collect_table_data(table) == [i \in 1..Len(table) |-> RowData(table[i])]

\* The value _save_project_settings stores: per row, the list of its values.
save_project_settings(table) ==
    LET table_data == collect_table_data(table)
    IN  [i \in 1..Len(table_data) |->
            <<table_data[i].project_name, table_data[i].file_path,
              table_data[i].last_modified, table_data[i].created_by>>]

RECURSIVE load_project_rows(_, _, _)
\* The loop of _load_project_settings over save_data, from entry k on.
load_project_rows(save_data, k, table) ==
    IF k > Len(save_data) THEN table
    ELSE LET i == save_data[k]
         IN  IF ~Exists(StrPath(i[2]))
             THEN load_project_rows(save_data, k + 1, table)
             ELSE load_project_rows(save_data, k + 1,
                      add_project_row(table,
                          [project_name |-> i[1], file_path |-> i[2],
                           last_modified |-> i[3], created_by |-> i[4]]))

\* A variant of _load_project_settings without its exists() test.
load_project_settings_unchecked(save_data) ==
    [k \in 1..Len(save_data) |->
        ProjectRow([project_name |-> save_data[k][1], file_path |-> save_data[k][2],
                    last_modified |-> save_data[k][3],
                    created_by |-> save_data[k][4]], k - 1)]

load_project_settings(save_data) == load_project_rows(save_data, 1, <<>>)

\* A variant of the new project's path without the .aep suffix.
NewProjectPath_no_suffix(project_name) == MkPath(ProjectsFolder, project_name)

\* Path(projectsFolder, f"{project_name}.aep")
NewProjectPath(project_name) == MkPath(ProjectsFolder, project_name \o <<".aep">>)

\* A variant of delete_project that removes the row of a project whose file
\* is missing.
delete_project_drops_missing(index, answer) ==
    IF answer # "Yes"
    THEN [disk |-> disk, table |-> projects_table, outcome |-> "declined"]
    ELSE IF index >= Len(projects_table)
    THEN [disk |-> disk, table |-> projects_table, outcome |-> "raised"]
    ELSE LET project_path == StrPath(projects_table[index + 1].file_path)
         IN  [disk |-> IF Exists(project_path) THEN RemoveFile(disk, project_path)
                       ELSE disk,
              table |-> RemoveAt(projects_table, index),
              outcome |-> "deleted"]

\* delete_project(index) on the current table and disk: what it leaves.
\* item(index, 1) is None past the last row, and .text() then raises;
\* QMessageBox.information(self, "File Not Found!") lacks its text argument
\* and raises as well.
delete_project(index, answer) ==
    IF answer # "Yes"
    THEN [disk |-> disk, table |-> projects_table, outcome |-> "declined"]
    ELSE IF index >= Len(projects_table)
    THEN [disk |-> disk, table |-> projects_table, outcome |-> "raised"]
    ELSE LET project_path == StrPath(projects_table[index + 1].file_path)
         IN  IF ~Exists(project_path)
             THEN [disk |-> disk, table |-> projects_table, outcome |-> "raised"]
             ELSE [disk |-> RemoveFile(disk, project_path),
                   table |-> remove_row(projects_table, index),
                   outcome |-> "deleted"]

\* The user clicks the Delete button of the row shown at position pos
\* (counted from 0) and answers the confirmation.
click_delete_project(pos, answer) ==
    /\ program = "py_ae"
    /\ window_open
    /\ pos < Len(projects_table)
    /\ LET index == projects_table[pos + 1].delete_index
           r == delete_project(index, answer)
       IN  /\ disk' = r.disk
           /\ projects_table' = r.table
           /\ last' = [op |-> "delete_project", pos |-> pos, index |-> index,
                       answer |-> answer, outcome |-> r.outcome,
                       path |-> projects_table[pos + 1].file_path]
    /\ UNCHANGED <<program, window_open, dirs, settings, project_ini,
                   last_project_files, last_project_directory, process>>
    /\ UNCHANGED assetVars
    /\ UNCHANGED threads

create_new_project_connection(project_name, ok_pressed, now) ==
    /\ program = "py_ae"
    /\ window_open
    /\ Len(projects_table) < MaxRows
    /\ dirs' = dirs \cup {ProjectsFolder}
    /\ IF ok_pressed /\ project_name # <<>> /\ Exists(TemplatePath)
       THEN LET new_project_path == NewProjectPath(project_name)
            IN  /\ disk' = CopyFile(disk, TemplatePath, new_project_path, now)
                /\ projects_table' = add_project_row(projects_table,
                       [project_name |-> project_name,
                        file_path |-> PathStr(new_project_path),
                        last_modified |->
                            LastModified(disk', new_project_path),
                        created_by |-> CurrentUser])
       ELSE UNCHANGED <<disk, projects_table>>
    /\ last' = [op |-> "create_new_project_connection", name |-> project_name,
                ok |-> ok_pressed, rows |-> Len(projects_table)]
    /\ UNCHANGED <<program, window_open, settings, project_ini,
                   last_project_files, last_project_directory, process>>
    /\ UNCHANGED assetVars
    /\ UNCHANGED threads

(***************************************************************************)
(* src/py_ae.py: the imported-assets table and the two .ini files.         *)
(***************************************************************************)

\* A row of the imported-assets table: its four text items, the path its
\* Import button was connected with, the row its Delete button was connected
\* with, and whether the view hides it (setRowHidden).
AssetRow(asset_name, file_path, last_modified, imported_by, import_path, row) ==
    [asset_name |-> asset_name, file_path |-> file_path,
     last_modified |-> last_modified, imported_by |-> imported_by,
     import_path |-> import_path, delete_index |-> row, hidden |-> FALSE]

\* populate_imported_assets_table(file_path, last_modified, imported_by)
populate_imported_assets_table(table, file_path, last_modified, imported_by) ==
    Append(table, AssetRow(file_path.name, PathStr(file_path), last_modified,
                           imported_by, file_path, Len(table)))

\* add_asset_row(row_data).  _create_asset_widget reads its path with
\* itemAt(row_index, 1), which takes viewport pixels, not a row and a column:
\* the item under pixel (row_index, 1) is the Asset Name of the top row.
add_asset_row(table, row_data) ==
    LET top == IF table = <<>> THEN row_data.asset_name ELSE table[1].asset_name
    IN  Append(table, AssetRow(row_data.asset_name, row_data.file_path,
                               row_data.last_modified, row_data.imported_by,
                               MkPath(".", top), Len(table)))

\* The value _save_asset_settings stores.
save_asset_settings(table) ==
    [i \in 1..Len(table) |->
        <<table[i].asset_name, table[i].file_path,
          table[i].last_modified, table[i].imported_by>>]

RECURSIVE load_asset_rows(_, _, _)
load_asset_rows(save_data, k, table) ==
    IF k > Len(save_data) THEN table
    ELSE LET i == save_data[k]
         IN  IF ~Exists(StrPath(i[2]))
             THEN load_asset_rows(save_data, k + 1, table)
             ELSE load_asset_rows(save_data, k + 1,
                      add_asset_row(table,
                          [asset_name |-> i[1], file_path |-> i[2],
                           last_modified |-> i[3], imported_by |-> i[4]]))

load_asset_settings(save_data) == load_asset_rows(save_data, 1, <<>>)

(***************************************************************************)
(* src/py_ae.py: the handlers of the projects side.                        *)
(***************************************************************************)

\* The search bar's textChanged signal.
filter_projects(sub_string) ==
    /\ program = "py_ae"
    /\ window_open
    /\ last' = [op |-> "filter_projects", text |-> sub_string,
                base |-> IF last.op = "filter_projects" THEN last.base
                         ELSE collect_table_data(projects_table)]
    /\ UNCHANGED <<program, window_open, disk, dirs, settings>>
    /\ UNCHANGED projectVars
    /\ UNCHANGED assetVars
    /\ UNCHANGED threads

\* "C:/Program Files/Adobe/Adobe After Effects 2024/Support Files/AfterFX.exe"
AerenderPath == "AfterFX.exe"

\* The project files the program made, as far as they are on disk.
ProjectFilesOnDisk == {p \in DOMAIN disk : p.dir = ProjectsFolder}

\* The files the Open dialog can return: the program's project files and a
\* project made elsewhere.
OpenableProjects == ProjectFilesOnDisk \cup ({ForeignProject} \cap DOMAIN disk)

\* aerender_exists: whether the hard-coded executable exists on this machine;
\* project_path: the dialog's file, or None when the user cancels.
open_after_effects_project_connection(aerender_exists, project_path) ==
    /\ program = "py_ae"
    /\ window_open
    /\ IF aerender_exists /\ project_path # None
       THEN /\ last_project_directory' = [dir |-> project_path.dir]
            /\ process' = [program |-> AerenderPath,
                           arguments |-> <<PathStr(project_path)>>]
       ELSE UNCHANGED <<last_project_directory, process>>
    /\ last' = [op |-> "open_after_effects_project_connection",
                aerender_exists |-> aerender_exists, project_path |-> project_path]
    /\ UNCHANGED <<program, window_open, disk, dirs, settings, project_ini,
                   projects_table, last_project_files>>
    /\ UNCHANGED assetVars
    /\ UNCHANGED threads

\* The window is closed.  (_save_window_settings stores the geometry only.)
closeEvent ==
    /\ program = "py_ae"
    /\ window_open
    /\ window_open' = FALSE
    /\ project_ini' = save_project_settings(projects_table)
    /\ asset_ini' = save_asset_settings(imported_assets_table)
    /\ last' = [op |-> "closeEvent"]
    /\ UNCHANGED <<program, disk, dirs, settings, projects_table,
                   last_project_files, last_project_directory,
                   imported_assets_table, imported_assets, asset_search_text,
                   scripts, commands, process>>
    /\ UNCHANGED threads

\* AfterEffectsPipeline.__init__ after the window was closed: a new object.
\* `not save_data` also covers the empty list.
construct ==
    /\ program = "py_ae"
    /\ ~window_open
    /\ window_open' = TRUE
    /\ last_project_directory' = None
    /\ last_project_files' = <<>>
    /\ process' = None
    /\ asset_search_text' = <<>>
    /\ projects_table' = load_project_settings(project_ini)
    /\ imported_assets_table' = load_asset_settings(asset_ini)
    /\ last' = [op |-> "__init__"]
    /\ UNCHANGED <<program, disk, dirs, settings, project_ini, asset_ini,
                   imported_assets, scripts, commands>>
    /\ UNCHANGED threads

(***************************************************************************)
(* The environment: a project file is deleted outside the program.         *)
(***************************************************************************)
ExternalDelete(path) ==
    /\ path \in ProjectFilesOnDisk
    /\ disk' = RemoveFile(disk, path)
    /\ last' = [op |-> "external_delete"]
    /\ UNCHANGED <<program, window_open, dirs, settings>>
    /\ UNCHANGED projectVars
    /\ UNCHANGED assetVars
    /\ UNCHANGED threads

(***************************************************************************)
(* src/py_ae_v3.py: the project list, its table and its settings.          *)
(***************************************************************************)

\* json.dumps(value) and json.loads(text) of a well-formed text
JsonDumps(value) == [json |-> value]

JsonLoads(text) == text.json

\* "C:/Users/marty/ae_test_2/Blank_Project.aep"
V3TemplatePath == MkPath("C:/Users/marty/ae_test_2", <<"Blank_Project", ".aep">>)

\* save_settings(): the two keys it writes
v3_save_settings(st, project_files, assets) ==
    [st EXCEPT
        !.last_project_files =
            JsonDumps([i \in 1..Len(project_files) |->
                [path |-> PathStr(project_files[i].path),
                 created_by |-> project_files[i].created_by]]),
        !.imported_assets = JsonDumps(assets)]

\* existing_projects of populate_last_projects_table, on the disk d
v3_existing_projects(d, project_files) ==
    SelectSeq(project_files, LAMBDA project : project.path \in DOMAIN d)

\* The rows populate_last_projects_table inserts for the existing projects.
v3_project_rows(d, existing) ==
    [i \in 1..Len(existing) |->
        ProjectRow([project_name |-> existing[i].path.name,
                    file_path |-> PathStr(existing[i].path),
                    last_modified |-> LastModified(d, existing[i].path),
                    created_by |-> existing[i].created_by], i - 1)]

\* A variant of populate_last_projects_table without its save_settings().
v3_populate_last_projects_table_unsaved(d, st, project_files) ==
    LET existing == v3_existing_projects(d, project_files)
    IN  [files |-> existing, table |-> v3_project_rows(d, existing),
         settings |-> st]

\* populate_last_projects_table() run on the list project_files with the
\* disk d and the settings st: the list and the table it leaves, and the
\* settings after its closing save_settings().
v3_populate_last_projects_table(d, st, project_files) ==
    LET existing == v3_existing_projects(d, project_files)
    IN  [files |-> existing,
         table |-> v3_project_rows(d, existing),
         settings |-> v3_save_settings(st, existing, imported_assets)]

\* update_last_projects_list(project_path, created_by)
v3_update_last_projects_list(d, project_path, created_by) ==
    v3_populate_last_projects_table(d, settings,
        Append(last_project_files,
               [path |-> project_path, created_by |-> created_by]))

\* load_all_projects().  No line of the repository writes the key
\* last_project_directory, so the first return is the one taken; the loop
\* below it walks the characters of the stored JSON text ("[" and "]" at
\* least) and makes a bare Path of each.
v3_load_all_projects ==
    IF settings.last_project_directory = None
    THEN <<>>
    ELSE <<MkPath(".", <<"[">>), MkPath(".", <<"]">>)>>

v3_filter_projects(text) ==
    /\ program = "py_ae_v3"
    /\ window_open
    /\ IF text = <<>>
       THEN IF settings.last_project_directory = None
            THEN LET r == v3_populate_last_projects_table(disk, settings, v3_load_all_projects)
                 IN  /\ last_project_files' = r.files
                     /\ projects_table' = r.table
                     /\ settings' = r.settings
            ELSE \* populate raises at project["path"], after setRowCount(0)
                 /\ last_project_files' = v3_load_all_projects
                 /\ projects_table' = <<>>
                 /\ UNCHANGED settings
       ELSE IF last_project_files = <<>>
            THEN LET r == v3_populate_last_projects_table(disk, settings, <<>>)
                 IN  /\ last_project_files' = r.files
                     /\ projects_table' = r.table
                     /\ settings' = r.settings
            ELSE \* project.name on a dict raises AttributeError
                 UNCHANGED <<last_project_files, projects_table, settings>>
    /\ last' = [op |-> "filter_projects", text |-> text,
                base |-> IF last.op = "filter_projects" THEN last.base
                         ELSE collect_table_data(projects_table)]
    /\ UNCHANGED <<program, window_open, disk, dirs, project_ini,
                   last_project_directory, process>>
    /\ UNCHANGED assetVars
    /\ UNCHANGED threads

\* delete_project(index), the definition at the end of the class (the one
\* Python keeps): what it leaves.
v3_delete_project(index, answer) ==
    IF ~(index < Len(last_project_files))
    THEN [disk |-> disk, files |-> last_project_files, table |-> projects_table,
          settings |-> settings, outcome |-> "invalid"]
    ELSE IF answer # "Yes"
    THEN [disk |-> disk, files |-> last_project_files, table |-> projects_table,
          settings |-> settings, outcome |-> "declined"]
    ELSE LET project_path == last_project_files[index + 1].path
         IN  IF ~Exists(project_path)
             THEN [disk |-> disk, files |-> last_project_files,
                   table |-> projects_table, settings |-> settings,
                   outcome |-> "not_found"]
             ELSE \* populate_last_projects_table(), then save_settings() again
                  LET r == v3_populate_last_projects_table(
                               RemoveFile(disk, project_path), settings,
                               RemoveAt(last_project_files, index))
                  IN  [disk |-> RemoveFile(disk, project_path),
                       files |-> r.files, table |-> r.table,
                       settings |-> v3_save_settings(r.settings, r.files,
                                                     imported_assets),
                       outcome |-> "deleted"]

v3_click_delete_project(pos, answer) ==
    /\ program = "py_ae_v3"
    /\ window_open
    /\ pos < Len(projects_table)
    /\ LET index == projects_table[pos + 1].delete_index
           r == v3_delete_project(index, answer)
       IN  /\ disk' = r.disk
           /\ last_project_files' = r.files
           /\ projects_table' = r.table
           /\ settings' = r.settings
           /\ last' = [op |-> "delete_project", pos |-> pos, index |-> index,
                       answer |-> answer, outcome |-> r.outcome,
                       path |-> projects_table[pos + 1].file_path]
    /\ UNCHANGED <<program, window_open, dirs, project_ini,
                   last_project_directory, process>>
    /\ UNCHANGED assetVars
    /\ UNCHANGED threads

v3_create_new_project_connection(project_name, ok_pressed, now) ==
    /\ program = "py_ae_v3"
    /\ window_open
    /\ Len(projects_table) < MaxRows
    /\ dirs' = dirs \cup {ProjectsFolder}
    /\ IF ok_pressed /\ project_name # <<>> /\ Exists(V3TemplatePath)
       THEN LET new_project_path == NewProjectPath(project_name)
                copied == CopyFile(disk, V3TemplatePath, new_project_path, now)
                r == v3_update_last_projects_list(copied, new_project_path,
                                                  CurrentUser)
            IN  /\ disk' = copied
                /\ last_project_files' = r.files
                /\ projects_table' = r.table
                /\ settings' = v3_save_settings(r.settings, r.files,
                                                imported_assets)
       ELSE UNCHANGED <<disk, last_project_files, projects_table, settings>>
    /\ last' = [op |-> "create_new_project_connection", name |-> project_name,
                ok |-> ok_pressed, rows |-> Len(projects_table)]
    /\ UNCHANGED <<program, window_open, project_ini, last_project_directory,
                   process>>
    /\ UNCHANGED assetVars
    /\ UNCHANGED threads

\* update_last_projects_list(Path(project_path)) is called without its
\* created_by argument and raises TypeError: the handler ends there, after it
\* set last_project_directory.
v3_open_after_effects_project_connection(aerender_exists, project_path) ==
    /\ program = "py_ae_v3"
    /\ window_open
    /\ IF aerender_exists /\ project_path # None
       THEN last_project_directory' = [dir |-> project_path.dir]
       ELSE UNCHANGED last_project_directory
    /\ last' = [op |-> "open_after_effects_project_connection",
                aerender_exists |-> aerender_exists, project_path |-> project_path]
    /\ UNCHANGED <<program, window_open, disk, dirs, settings, project_ini,
                   projects_table, last_project_files, process>>
    /\ UNCHANGED assetVars
    /\ UNCHANGED threads

\* The window is closed: py_ae_v3.py has no closeEvent of its own.
v3_close ==
    /\ program = "py_ae_v3"
    /\ window_open
    /\ window_open' = FALSE
    /\ last' = [op |-> "close"]
    /\ UNCHANGED <<program, disk, dirs, settings>>
    /\ UNCHANGED projectVars
    /\ UNCHANGED assetVars
    /\ UNCHANGED threads

\* A stored text is [json |-> v] when json.loads accepts it, v being a list
\* (a sequence) whose elements are objects (records) or numbers
\* ([number |-> n]); [json_scalar |-> n] when it is the JSON text of a bare
\* number; and [garbage |-> TRUE] when json.loads raises JSONDecodeError.
IsJsonList(text) == "json" \in DOMAIN text

\* isinstance(project, dict)
IsDict(e) == "number" \notin DOMAIN e

\* project.get(key, default)
DictGet(e, key, default) == IF key \in DOMAIN e THEN e[key] ELSE default

\* A variant of the parse below that does not read created_by.
v3_loaded_project_files_no_creator(st) ==
    LET stored == JsonLoads(st.last_project_files)
    IN  [raised |-> FALSE,
         files |-> [i \in 1..Len(stored) |->
                       [path |-> StrPath(stored[i].path), created_by |-> "Unknown"]]]

\* The project list load_settings() parses from the stored JSON text: the
\* list, or raised when an exception other than JSONDecodeError leaves the
\* comprehension (iterating a number, project["path"] of an object
\* without that key).
v3_loaded_project_files(st) ==
    LET text == st.last_project_files
    IN  IF "garbage" \in DOMAIN text THEN [raised |-> FALSE, files |-> <<>>]
        ELSE IF ~IsJsonList(text) THEN [raised |-> TRUE, files |-> <<>>]
        ELSE LET dicts == SelectSeq(JsonLoads(text), IsDict)
             IN  IF \E i \in 1..Len(dicts) : "path" \notin DOMAIN dicts[i]
                 THEN [raised |-> TRUE, files |-> <<>>]
                 ELSE [raised |-> FALSE,
                       files |-> [i \in 1..Len(dicts) |->
                           [path |-> StrPath(dicts[i].path),
                            created_by |-> DictGet(dicts[i], "created_by",
                                                   "Unknown")]]]

\* self.imported_assets as load_settings() parses it, when it is a list.
v3_loaded_imported_assets(st) ==
    IF IsJsonList(st.imported_assets) THEN JsonLoads(st.imported_assets) ELSE <<>>

\* asset["path"] and asset["last_modified"] can be read.
IsAssetRecord(e) == IsDict(e) /\ {"path", "last_modified"} \subseteq DOMAIN e

RECURSIVE v3_asset_rows(_, _, _)
\* The loop of load_settings() over self.imported_assets, from entry k on:
\* the rows it adds, and raised when an entry stops it.
v3_asset_rows(assets, k, table) ==
    IF k > Len(assets) THEN [raised |-> FALSE, table |-> table]
    ELSE IF ~IsAssetRecord(assets[k]) THEN [raised |-> TRUE, table |-> table]
    ELSE v3_asset_rows(assets, k + 1,
             Append(table, AssetRow(StrPath(assets[k].path).name, assets[k].path,
                                    assets[k].last_modified,
                                    DictGet(assets[k], "imported_by", "Unknown"),
                                    assets[k].path, Len(table))))

\* AfterEffectsPipeline.__init__ after the window was closed: load_settings().
\* An exception that leaves load_settings() leaves __init__ and ends the
\* program: the settings keep what was written before it, the window and
\* its lists are gone.
v3_construct ==
    /\ program = "py_ae_v3"
    /\ ~window_open
    /\ last_project_directory' = None
    /\ process' = None
    /\ asset_search_text' = <<>>
    /\ LET projects == v3_loaded_project_files(settings)
           assets == v3_loaded_imported_assets(settings)
           r == v3_populate_last_projects_table(disk, settings, projects.files)
           saved == [v3_save_settings(r.settings, r.files, assets) EXCEPT
                        !.imported_assets =
                            IF "json_scalar" \in DOMAIN settings.imported_assets
                            THEN settings.imported_assets ELSE @]
           rows == IF "json_scalar" \in DOMAIN settings.imported_assets
                   THEN [raised |-> TRUE, table |-> <<>>]
                   ELSE v3_asset_rows(assets, 1, <<>>)
       IN  IF projects.raised
           THEN /\ window_open' = FALSE
                /\ UNCHANGED settings
                /\ last_project_files' = <<>>
                /\ projects_table' = <<>>
                /\ imported_assets' = <<>>
                /\ imported_assets_table' = <<>>
                /\ last' = [op |-> "__init__", outcome |-> "raised",
                            stored |-> 0]
           ELSE IF rows.raised
           THEN /\ window_open' = FALSE
                /\ settings' = saved
                /\ last_project_files' = <<>>
                /\ projects_table' = <<>>
                /\ imported_assets' = <<>>
                /\ imported_assets_table' = <<>>
                /\ last' = [op |-> "__init__", outcome |-> "raised",
                            stored |-> Len(projects.files)]
           ELSE /\ window_open' = TRUE
                /\ settings' = saved
                /\ last_project_files' = r.files
                /\ projects_table' = r.table
                /\ imported_assets' = assets
                /\ imported_assets_table' = rows.table
                /\ last' = [op |-> "__init__", outcome |-> "completed",
                            stored |-> Len(projects.files)]
    /\ UNCHANGED <<program, disk, dirs, project_ini, asset_ini, scripts, commands>>
    /\ UNCHANGED threads

(***************************************************************************)
(* The initial state: the program was started on a machine that never ran  *)
(* it, with both template files in place and nothing configured.           *)
(***************************************************************************)
Init ==
    /\ program \in {"py_ae", "py_ae_v3"}
    /\ window_open = TRUE
    /\ disk = [p \in {TemplatePath, V3TemplatePath, ForeignProject}
                       \cup {MkPath("src", n) : n \in AssetNames} |->
                   [data |-> p.name, mtime |-> "t1"]]
    /\ dirs = {"app", "C:/Users/marty/ae_test_2", ".", "src", "shots", "assets"}
    /\ settings = [aePath |-> None, assetsFolder |-> None, projectsFolder |-> None,
                   last_project_directory |-> None,
                   last_project_files |->
                       IF program = "py_ae_v3" THEN JsonDumps(<<>>) ELSE None,
                   imported_assets |->
                       IF program = "py_ae_v3" THEN JsonDumps(<<>>) ELSE None]
    /\ project_ini = <<>>
    /\ asset_ini = <<>>
    /\ projects_table = <<>>
    /\ last_project_files = <<>>
    /\ last_project_directory = None
    /\ imported_assets_table = <<>>
    /\ imported_assets = <<>>
    /\ asset_search_text = <<>>
    /\ scripts = <<>>
    /\ commands = <<>>
    /\ process = None
    /\ threads = <<>>
    /\ last = [op |-> "__init__", outcome |-> "completed", stored |-> 0]

\* The handlers that add and delete projects, with the clock showing a
\* time of the set T.
CreateOrDelete(T) ==
    \/ \E n \in ProjectNames \cup {<<>>}, ok \in BOOLEAN, t \in T :
           create_new_project_connection(n, ok, t)
    \/ \E pos \in 0..(MaxRows - 1), answer \in {"Yes", "Cancel"} :
           click_delete_project(pos, answer)
    \/ \E n \in ProjectNames \cup {<<>>}, ok \in BOOLEAN, t \in T :
           v3_create_new_project_connection(n, ok, t)
    \/ \E pos \in 0..(MaxRows - 1), answer \in {"Yes", "No"} :
           v3_click_delete_project(pos, answer)

Environment == \E p \in DOMAIN disk : ExternalDelete(p)

NextProjects == CreateOrDelete(Times) \/ Environment

SpecProjects == Init /\ [][NextProjects]_vars

NextRestart ==
    \/ CreateOrDelete({"t2"})
    \/ Environment
    \/ closeEvent
    \/ construct
    \/ v3_close
    \/ v3_construct

SpecRestart == Init /\ [][NextRestart]_vars

NextFilter ==
    \/ \E n \in ProjectNames, t \in Times :
           create_new_project_connection(n, TRUE, t)
    \/ \E n \in ProjectNames, t \in Times :
           v3_create_new_project_connection(n, TRUE, t)
    \/ Environment
    \/ \E t \in SearchTexts : filter_projects(t)
    \/ \E t \in SearchTexts : v3_filter_projects(t)

SpecFilter == Init /\ [][NextFilter]_vars

NextOpen ==
    \/ \E n \in ProjectNames, t \in Times :
           create_new_project_connection(n, TRUE, t)
    \/ \E n \in ProjectNames, t \in Times :
           v3_create_new_project_connection(n, TRUE, t)
    \/ \E e \in BOOLEAN, p \in OpenableProjects \cup {None} :
           open_after_effects_project_connection(e, p)
    \/ \E e \in BOOLEAN, p \in OpenableProjects \cup {None} :
           v3_open_after_effects_project_connection(e, p)

SpecOpen == Init /\ [][NextOpen]_vars

(***************************************************************************)
(* Importing assets (both files) and the settings dialog.                  *)
(***************************************************************************)

\* The After Effects executable installed on this machine.
InstalledAfterFX == "C:/AE/AfterFX.exe"

\* Path.is_file() / os.path.isfile() of the text of an executable's path
IsFile(text) == text = InstalledAfterFX

\* What a user may enter in the settings dialog.
AePathTexts == {"", InstalledAfterFX}

AssetsFolderTexts == {"", "assets", "gone"}

\* Path('does/not/exist/dasds')
DoesNotExist == "does/not/exist/dasds"

\* Path(text) of a directory's text: Path("") is the current directory.
DirOf(text) == IF text = "" THEN "." ELSE text

\* The settings dialog is shown; on OK its three fields are stored.
show_settings_dialog(accepted, aePath, assetsFolder, projectsFolder) ==
    /\ window_open
    /\ IF accepted
       THEN settings' = [settings EXCEPT !.aePath = [text |-> aePath],
                                         !.assetsFolder = [text |-> assetsFolder],
                                         !.projectsFolder = [text |-> projectsFolder]]
       ELSE UNCHANGED settings
    /\ last' = [op |-> "show_settings_dialog"]
    /\ UNCHANGED <<program, window_open, disk, dirs>>
    /\ UNCHANGED projectVars
    /\ UNCHANGED assetVars
    /\ UNCHANGED threads

\* The property after_effects_path of py_ae.py
after_effects_path ==
    LET ae_path == SettingText(settings.aePath, "")
    IN  IF IsFile(ae_path) THEN ae_path ELSE DoesNotExist

\* The property assets_folder_path of py_ae.py: a Path object is always true,
\* and Path("") exists, being the current directory.
assets_folder_path ==
    LET asset_folder_path == DirOf(SettingText(settings.assetsFolder, ""))
    IN  IF asset_folder_path \in dirs THEN asset_folder_path ELSE DoesNotExist

\* tempfile.mktemp(suffix=".jsx"): a name no earlier script has
Mktemp == [tmp |-> Len(scripts) + 1]

\* The script execute_jsx_script writes: its file, and the path its
\* new File("...") names.
JsxScript(file_path) == [path |-> Mktemp, import_file |-> file_path]

\* The files the Import dialog can return.
ImportableFiles == {p \in DOMAIN disk : p.name \in AssetNames}

\* shutil.copy(src, <folder>/<name of src>) raises SameFileError when both are
\* the same file and FileNotFoundError when the folder does not exist.
CopyRaises(src, destination) == destination = src \/ destination.dir \notin dirs

\* ae_running: is_after_effects_running(); file_name: the dialog's file, or
\* None when the user cancels; now: the clock.
import_file_connection(ae_running, file_name, now) ==
    /\ program = "py_ae"
    /\ window_open
    /\ Len(imported_assets_table) < MaxAssetRows
    /\ Len(scripts) < MaxScripts
    /\ LET destination == MkPath(assets_folder_path, file_name.name)
           reached_copy == /\ ae_running
                           /\ IsFile(after_effects_path)
                           /\ file_name # None   \* Path(None) raises TypeError
                           /\ Exists(file_name)
       IN  IF reached_copy /\ ~CopyRaises(file_name, destination)
           THEN /\ disk' = CopyFile(disk, file_name, destination, now)
                /\ scripts' = Append(scripts, JsxScript(PathStr(destination)))
                /\ commands' = Append(commands,
                                      <<after_effects_path, "-r", Mktemp>>)
                /\ imported_assets_table' =
                       populate_imported_assets_table(imported_assets_table,
                                                      file_name, now, CurrentUser)
           ELSE UNCHANGED <<disk, scripts, commands, imported_assets_table>>
    /\ last' = [op |-> "import_file_connection", ae_running |-> ae_running,
                file_name |-> file_name]
    /\ UNCHANGED <<program, window_open, dirs, settings, asset_ini,
                   imported_assets, asset_search_text>>
    /\ UNCHANGED projectVars
    /\ UNCHANGED threads

\* get_after_effects_path() of py_ae_v3.py, None when it shows its error
v3_get_after_effects_path ==
    LET aePath == SettingText(settings.aePath, "")
    IN  IF aePath = "" \/ ~IsFile(aePath) THEN None ELSE [text |-> aePath]

\* get_assets_folder_path() of py_ae_v3.py, None when it shows its error
v3_get_assets_folder_path ==
    LET assetsFolder == SettingText(settings.assetsFolder, "")
    IN  IF assetsFolder = "" \/ assetsFolder \notin dirs
        THEN None ELSE [text |-> assetsFolder]

\* update_imported_assets(file_path, last_modified, imported_by): the list
\* with the new record
v3_update_imported_assets(file_path, last_modified, imported_by) ==
    Append(imported_assets, [path |-> file_path, last_modified |-> last_modified,
                             imported_by |-> imported_by])

v3_import_file_connection(ae_running, file_name, now) ==
    /\ program = "py_ae_v3"
    /\ window_open
    /\ Len(imported_assets_table) < MaxAssetRows
    /\ Len(scripts) < MaxScripts
    /\ LET aePath == v3_get_after_effects_path
           assetsFolder == v3_get_assets_folder_path
           destination == MkPath(assetsFolder.text, file_name.name)
           reached_copy == /\ ae_running
                           /\ aePath # None
                           /\ assetsFolder # None
                           /\ file_name # None
       IN  IF reached_copy /\ ~CopyRaises(file_name, destination)
           THEN /\ disk' = CopyFile(disk, file_name, destination, now)
                /\ scripts' = Append(scripts, JsxScript(PathStr(destination)))
                /\ commands' = Append(commands, <<aePath.text, "-r", Mktemp>>)
                /\ imported_assets' =
                       v3_update_imported_assets(PathStr(file_name), now,
                                                 CurrentUser)
                /\ imported_assets_table' =
                       Append(imported_assets_table,
                              AssetRow(file_name.name, PathStr(file_name), now,
                                       CurrentUser, PathStr(file_name),
                                       Len(imported_assets_table)))
                /\ settings' = [settings EXCEPT !.imported_assets =
                                                    JsonDumps(imported_assets')]
           ELSE UNCHANGED <<disk, scripts, commands, imported_assets,
                            imported_assets_table, settings>>
    /\ last' = [op |-> "import_file_connection", ae_running |-> ae_running,
                file_name |-> file_name]
    /\ UNCHANGED <<program, window_open, dirs, asset_ini, asset_search_text>>
    /\ UNCHANGED projectVars
    /\ UNCHANGED threads

\* A variant of the loop of filter_assets that compares without lower().
filter_assets_rows_case_sensitive(table, text) ==
    [row \in 1..Len(table) |->
        [table[row] EXCEPT !.hidden = ~IsSubstring(text, table[row].asset_name)]]

\* The loop of filter_assets over the rows: every row has its Asset Name item.
filter_assets_rows(table, text) ==
    LET search_text == Lower(text)
    IN  [row \in 1..Len(table) |->
            [table[row] EXCEPT
                !.hidden = ~IsSubstring(search_text, Lower(table[row].asset_name))]]

\* The asset search bar's textChanged signal, the same in both files.
filter_assets(text) ==
    /\ window_open
    /\ text # asset_search_text
    /\ asset_search_text' = text
    /\ imported_assets_table' = filter_assets_rows(imported_assets_table, text)
    /\ last' = [op |-> "filter_assets"]
    /\ UNCHANGED <<program, window_open, disk, dirs, settings, asset_ini,
                   imported_assets, scripts, commands>>
    /\ UNCHANGED projectVars
    /\ UNCHANGED threads

NextAssets ==
    \/ \E ok \in BOOLEAN, ae \in AePathTexts, folder \in AssetsFolderTexts :
           show_settings_dialog(ok, ae, folder, "projects")
    \/ \E r \in BOOLEAN, f \in ImportableFiles \cup {None} :
           import_file_connection(r, f, "t2")
    \/ \E r \in BOOLEAN, f \in ImportableFiles \cup {None} :
           v3_import_file_connection(r, f, "t2")

SpecAssets == Init /\ [][NextAssets]_vars

NextAssetFilter ==
    \/ show_settings_dialog(TRUE, InstalledAfterFX, "assets", "projects")
    \/ \E f \in ImportableFiles : import_file_connection(TRUE, f, "t2")
    \/ \E f \in ImportableFiles : v3_import_file_connection(TRUE, f, "t2")
    \/ \E t \in SearchTexts : filter_assets(t)

SpecAssetFilter == Init /\ [][NextAssetFilter]_vars


(***************************************************************************)
(* The worker threads: run_after_effects_command_async and                 *)
(* AfterEffectsThread, in both files.  Worker w runs commands[w]; self.thread*)
(* is the worker made last, and no other reference to a worker is kept.    *)
(* A worker is running from its start() until it has an entry in threads.  *)
(***************************************************************************)
MaxWorkers == 3

\* How subprocess.run(command, check=True) ends: exit status 0, a non-zero
\* exit status (CalledProcessError), or no process at all (OSError).
Exits == {"zero", "nonzero", "not_launched"}

\* The commands the handlers build: open_project_connection's and
\* execute_jsx_script's.
ThreadCommands ==
    {<<AerenderPath, PathStr(ForeignProject)>>,
     <<InstalledAfterFX, "-r", [tmp |-> 1]>>}

\* self.thread: the worker the pipeline references (0 before the first).
thread == Len(commands)

Running(w) == w \in 1..Len(commands) /\ w \notin DOMAIN threads

\* run_after_effects_command_async(command): a new worker is made, bound
\* to self.thread, connected and started.
run_after_effects_command_async(command) ==
    /\ window_open
    /\ Len(commands) < MaxWorkers
    /\ commands' = Append(commands, command)
    /\ last' = [op |-> "run_after_effects_command_async"]
    /\ UNCHANGED <<program, window_open, disk, dirs, settings, asset_ini,
                   imported_assets_table, imported_assets, asset_search_text,
                   scripts, threads>>
    /\ UNCHANGED projectVars

\* AfterEffectsThread.run() of src/py_ae.py: what the worker has done when
\* it leaves run().  Only CalledProcessError is caught.
AfterEffectsThread_run(exit) ==
    IF exit = "zero"
    THEN [signal |-> "queued", success |-> TRUE, raised |-> FALSE, calls |-> 0]
    ELSE IF exit = "nonzero"
    THEN [signal |-> "queued", success |-> FALSE, raised |-> FALSE, calls |-> 0]
    ELSE [signal |-> "none", success |-> FALSE, raised |-> TRUE, calls |-> 0]

\* AfterEffectsThread.run() of src/py_ae_v3.py: finished is emitted in the
\* finally clause, an OSError leaves run() after it.
v3_AfterEffectsThread_run(exit) ==
    [signal |-> "queued", success |-> TRUE, raised |-> exit = "not_launched",
     calls |-> 0]

\* Worker w leaves run(), its command having ended with exit.
worker_run(w, exit) ==
    /\ window_open
    /\ Running(w)
    /\ threads' = (w :> (IF program = "py_ae" THEN AfterEffectsThread_run(exit)
                         ELSE v3_AfterEffectsThread_run(exit))) @@ threads
    /\ last' = [op |-> "run", worker |-> w, exit |-> exit]
    /\ UNCHANGED <<program, window_open, disk, dirs, settings>>
    /\ UNCHANGED projectVars
    /\ UNCHANGED assetVars

\* The event loop delivers worker w's finished signal: thread_finished runs.
thread_finished(w) ==
    /\ window_open
    /\ w \in DOMAIN threads
    /\ threads[w].signal = "queued"
    /\ threads' = [threads EXCEPT ![w].signal = "delivered",
                                  ![w].calls = @ + 1]
    /\ last' = [op |-> "thread_finished", worker |-> w]
    /\ UNCHANGED <<program, window_open, disk, dirs, settings>>
    /\ UNCHANGED projectVars
    /\ UNCHANGED assetVars

\* The program is ended from inside Qt.  Two things the code does can end
\* it, and whether they do is Qt's and PyQt's choice: the worker that
\* self.thread named is replaced while it runs (its QThread object loses
\* its only reference), or an exception leaves a worker's run().
abort(w) ==
    /\ window_open
    /\ \/ Running(w) /\ w # thread
       \/ w \in DOMAIN threads /\ threads[w].raised
    /\ window_open' = FALSE
    /\ last' = [op |-> "abort", worker |-> w]
    /\ UNCHANGED <<program, disk, dirs, settings, threads>>
    /\ UNCHANGED projectVars
    /\ UNCHANGED assetVars

WorkerStep == \E w \in 1..MaxWorkers, exit \in Exits : worker_run(w, exit)

Delivery == \E w \in 1..MaxWorkers : thread_finished(w)

NextThreads ==
    \/ \E command \in ThreadCommands : run_after_effects_command_async(command)
    \/ WorkerStep
    \/ Delivery
    \/ \E w \in 1..MaxWorkers : abort(w)

\* Every worker that runs leaves run() at some time, and the event loop
\* delivers every queued signal while the program lives.
SpecThreads ==
    Init /\ [][NextThreads]_vars /\ WF_vars(WorkerStep) /\ WF_vars(Delivery)

(***************************************************************************)
(* src/py_ae_v3.py: deleting an imported asset, and the handlers that      *)
(* write and read the two JSON lists of the settings.                      *)
(***************************************************************************)

\* A variant of delete_imported_asset that leaves self.imported_assets alone.
v3_delete_imported_asset_keeps_entry(row, answer) ==
    IF answer # "Yes" \/ row >= Len(imported_assets_table)
    THEN [table |-> imported_assets_table, assets |-> imported_assets,
          disk |-> disk, settings |-> settings]
    ELSE [table |-> RemoveAt(imported_assets_table, row),
          assets |-> imported_assets, disk |-> disk, settings |-> settings]

\* delete_imported_asset(row) answered Yes, row being the row count the
\* table had when the Delete button was made.  item(row, 0) is None past the
\* last row and .text() raises before anything is changed.
v3_delete_imported_asset(row, answer) ==
    IF answer # "Yes" \/ row >= Len(imported_assets_table)
    THEN [table |-> imported_assets_table, assets |-> imported_assets,
          disk |-> disk, settings |-> settings]
    ELSE LET asset_name == imported_assets_table[row + 1].asset_name
             assetsFolder == SettingText(settings.assetsFolder, "")
             asset_path == MkPath(DirOf(assetsFolder), asset_name)
             assets == RemoveAt(imported_assets, row)
         IN  [table |-> RemoveAt(imported_assets_table, row),
              assets |-> assets,
              disk |-> IF Exists(asset_path) THEN RemoveFile(disk, asset_path)
                       ELSE disk,
              settings |-> [settings EXCEPT !.imported_assets = JsonDumps(assets)]]

\* The user clicks the Delete button of the asset row shown at position pos.
v3_click_delete_imported_asset(pos, answer) ==
    /\ program = "py_ae_v3"
    /\ window_open
    /\ pos < Len(imported_assets_table)
    /\ LET row == imported_assets_table[pos + 1].delete_index
           r == v3_delete_imported_asset(row, answer)
       IN  /\ imported_assets_table' = r.table
           /\ imported_assets' = r.assets
           /\ disk' = r.disk
           /\ settings' = r.settings
           /\ last' = [op |-> "delete_imported_asset", pos |-> pos, row |-> row,
                       answer |-> answer]
    /\ UNCHANGED <<program, window_open, dirs, asset_ini, asset_search_text,
                   scripts, commands, threads>>
    /\ UNCHANGED projectVars

NextSettings ==
    \/ show_settings_dialog(TRUE, InstalledAfterFX, "assets", "projects")
    \/ \E n \in ProjectNames : v3_create_new_project_connection(n, TRUE, "t2")
    \/ Environment
    \/ \E f \in ImportableFiles : v3_import_file_connection(TRUE, f, "t2")
    \/ v3_close
    \/ v3_construct

SpecSettings == Init /\ [][NextSettings]_vars

NextAssetSync ==
    \/ show_settings_dialog(TRUE, InstalledAfterFX, "assets", "projects")
    \/ \E f \in ImportableFiles : v3_import_file_connection(TRUE, f, "t2")
    \/ \E pos \in 0..(MaxAssetRows - 1), answer \in {"Yes", "No"} :
           v3_click_delete_imported_asset(pos, answer)
    \/ v3_close
    \/ v3_construct

SpecAssetSync == Init /\ [][NextAssetSync]_vars

(***************************************************************************)
(* The settings written by something other than this program's             *)
(* save_settings: an older version, another tool, an editor.               *)
(***************************************************************************)
StoredValues ==
    {[garbage |-> TRUE],
     [json_scalar |-> 7],
     [json |-> <<[number |-> 7]>>],
     [json |-> <<[created_by |-> CurrentUser]>>],
     [json |-> <<[path |-> PathStr(ForeignProject)]>>]}

ExternalSettingsEdit(key, value) ==
    /\ program = "py_ae_v3"
    /\ ~window_open
    /\ key \in {"last_project_files", "imported_assets"}
    /\ settings' = [settings EXCEPT ![key] = value]
    /\ last' = [op |-> "external_settings_edit", key |-> key]
    /\ UNCHANGED <<program, window_open, disk, dirs, threads>>
    /\ UNCHANGED projectVars
    /\ UNCHANGED assetVars

NextLoad ==
    \/ show_settings_dialog(TRUE, InstalledAfterFX, "assets", "projects")
    \/ v3_create_new_project_connection(<<"a">>, TRUE, "t2")
    \/ \E f \in ImportableFiles : v3_import_file_connection(TRUE, f, "t2")
    \/ \E key \in {"last_project_files", "imported_assets"},
          value \in StoredValues : ExternalSettingsEdit(key, value)
    \/ v3_close
    \/ v3_construct

SpecLoad == Init /\ [][NextLoad]_vars

(***************************************************************************)
(* is_after_effects_running, the same in both files.                       *)
(***************************************************************************)
MaxProcs == 3

\* ae_process_name = "AfterFX.exe", a text of one piece
ae_process_name == <<"AfterFX.exe">>

\* proc.info['name'] of a process: its name, a text in pieces, or None when
\* psutil may not read it.
ProcessNames ==
    {[text |-> n] : n \in {<<"AfterFX.exe">>, <<"AfterFX.exe", ".bak">>,
                           <<"afterfx.exe">>, <<"explorer.exe">>}}
        \cup {None}

\* What psutil.process_iter(attrs=['name']) can yield.
ProcessLists == UNION {[1..n -> ProcessNames] : n \in 0..MaxProcs}

RECURSIVE process_iter_loop(_, _)
\* The loop of is_after_effects_running from process k on: "True" or "False"
\* when it returns, "TypeError" when `in` is applied to None.
process_iter_loop(procs, k) ==
    IF k > Len(procs) THEN "False"
    ELSE IF procs[k] = None THEN "TypeError"
    ELSE IF IsSubstring(ae_process_name, procs[k].text) THEN "True"
    ELSE process_iter_loop(procs, k + 1)

is_after_effects_running(procs) == process_iter_loop(procs, 1)

\* A handler asks whether After Effects runs, the process list being procs.
poll_after_effects(procs) ==
    /\ window_open
    /\ last' = [op |-> "is_after_effects_running", procs |-> procs,
                result |-> is_after_effects_running(procs)]
    /\ UNCHANGED <<program, window_open, disk, dirs, settings, threads>>
    /\ UNCHANGED projectVars
    /\ UNCHANGED assetVars

NextRunning == \E procs \in ProcessLists : poll_after_effects(procs)

SpecRunning == Init /\ [][NextRunning]_vars

(***************************************************************************)
(* The claims.                                                             *)
(***************************************************************************)

\* The number of rows of a projects table that show the path text file_path.
RowsFor(table, file_path) ==
    Cardinality({i \in 1..Len(table) : table[i].file_path = file_path})

\* C1 (as claimed): in py_ae.py, when the user clicks the Delete button of a
\* listed project P whose file is on disk and answers Yes, P's file is removed
\* from disk, P's row is removed from the projects table, and every other
\* file and row stays.
C1_DeleteButtonDeletesItsProject ==
    [][(/\ program = "py_ae"
        /\ last'.op = "delete_project"
        /\ last'.answer = "Yes"
        /\ Exists(StrPath(last'.path)))
       => /\ disk' = RemoveFile(disk, StrPath(last'.path))
          /\ projects_table' = RemoveAt(projects_table, last'.pos)]_vars

C8_Created(shown_name) ==
    LET path == MkPath(ProjectsFolder, last'.name \o <<".aep">>)
        row == projects_table'[Len(projects_table')]
    IN  /\ path \in DOMAIN disk'
        /\ disk'[path].data = TemplatePath.name
        /\ RowsFor(projects_table', PathStr(path))
             = RowsFor(projects_table, PathStr(path)) + 1
        /\ row.file_path = PathStr(path)
        /\ row.project_name = shown_name
        /\ row.created_by = CurrentUser

C8_Step ==
    /\ last'.op = "create_new_project_connection"
    /\ last'.ok
    /\ last'.name # <<>>

C10_RemoveRowPersists ==
    (program = "py_ae" /\ last.op = "delete_project" /\ last.outcome = "deleted")
        => project_ini = [i \in 1..Len(projects_table) |->
                             <<projects_table[i].project_name,
                               projects_table[i].file_path,
                               projects_table[i].last_modified,
                               projects_table[i].created_by>>]

\* The projects the table shows (no handler hides a row of this table).
ShownProjects(table) == collect_table_data(table)

\* C6 (as claimed): after the search text changes to a non-empty text t, the
\* projects shown are exactly the projects listed before whose name contains
\* t, compared case-insensitively.
C6_FilterShowsMatches ==
    [][(last'.op = "filter_projects" /\ last'.text # <<>>)
       => ShownProjects(projects_table')
            = SelectSeq(ShownProjects(projects_table),
                        LAMBDA row : IsSubstring(Lower(last'.text),
                                                 Lower(row.project_name)))]_vars

\* C7 (as claimed): in py_ae_v3.py, after a run of filter_projects calls that
\* ends with filter_projects(''), every project that was listed before the
\* first call and whose file exists is in last_project_files and in the table.
C7_ClearingSearchRestoresAll ==
    (program = "py_ae_v3" /\ last.op = "filter_projects" /\ last.text = <<>>)
        => \A i \in 1..Len(last.base) :
               Exists(StrPath(last.base[i].file_path))
               => /\ \E j \in 1..Len(last_project_files) :
                        PathStr(last_project_files[j].path) = last.base[i].file_path
                  /\ \E j \in 1..Len(projects_table) :
                        projects_table[j].file_path = last.base[i].file_path

\* The paths of the project list the program has persisted.
PersistedPaths ==
    IF program = "py_ae"
    THEN {project_ini[i][2] : i \in 1..Len(project_ini)}
    ELSE {JsonLoads(settings.last_project_files)[i].path :
             i \in 1..Len(JsonLoads(settings.last_project_files))}

\* C9 (as claimed): when the executable exists and the user selects a project
\* file, open_after_effects_project_connection sets the last project
\* directory, has the project in the project list and in the persisted list,
\* and has started After Effects with the project as its argument.
C9_OpenUpdatesSavesLaunches ==
    (/\ last.op = "open_after_effects_project_connection"
     /\ last.aerender_exists
     /\ last.project_path # None)
        => /\ last_project_directory = [dir |-> last.project_path.dir]
           /\ RowsFor(projects_table, PathStr(last.project_path)) > 0
           /\ PathStr(last.project_path) \in PersistedPaths
           /\ process = [program |-> AerenderPath,
                         arguments |-> <<PathStr(last.project_path)>>]

\* The configured After Effects path names an existing file.
AePathValid ==
    /\ settings.aePath # None
    /\ settings.aePath.text # ""
    /\ IsFile(settings.aePath.text)

\* The configured assets folder names an existing directory.
AssetsFolderValid ==
    /\ settings.assetsFolder # None
    /\ settings.assetsFolder.text # ""
    /\ settings.assetsFolder.text \in dirs

\* C3 (as claimed): import_file_connection copies no file, writes no script,
\* starts no command and adds no asset row when After Effects is not
\* running, the After Effects path or the assets folder is not valid, or the
\* user cancels the file dialog.
C3_ImportRefusedChangesNothing ==
    [][(/\ last'.op = "import_file_connection"
        /\ \/ ~last'.ae_running
           \/ ~AePathValid
           \/ ~AssetsFolderValid
           \/ last'.file_name = None)
       => UNCHANGED <<disk, scripts, commands, imported_assets_table>>]_vars

\* C4 (as claimed): when After Effects runs, both settings are valid and the
\* user chose a file, import_file_connection has the file's data at
\* <assets folder>/<file name>, has written one script that names that
\* destination, has handed [After Effects path, '-r', script path] to
\* run_after_effects_command_async and has appended exactly one asset row.
C4_ImportCopiesScriptsRunsAndLists ==
    [][(/\ last'.op = "import_file_connection"
        /\ last'.ae_running
        /\ AePathValid
        /\ AssetsFolderValid
        /\ last'.file_name # None)
       => LET destination == MkPath(settings.assetsFolder.text,
                                    last'.file_name.name)
              script == scripts'[Len(scripts')]
          IN  /\ destination \in DOMAIN disk'
              /\ disk'[destination].data = disk[last'.file_name].data
              /\ Len(scripts') = Len(scripts) + 1
              /\ script.import_file = PathStr(destination)
              /\ commands' = Append(commands,
                                    <<settings.aePath.text, "-r", script.path>>)
              /\ Len(imported_assets_table') = Len(imported_assets_table) + 1
              /\ SubSeq(imported_assets_table', 1, Len(imported_assets_table))
                   = imported_assets_table]_vars

\* C5: after filter_assets ran with the search text t, a row of the
\* imported-assets table is visible exactly if lower-cased t is a substring
\* of its lower-cased asset name.
C5_FilterAssetsHidesNonMatches ==
    last.op = "filter_assets"
        => \A row \in 1..Len(imported_assets_table) :
               ~imported_assets_table[row].hidden
                   <=> IsSubstring(Lower(asset_search_text),
                                   Lower(imported_assets_table[row].asset_name))

\* C5's case: a search text hides one asset and shows another whose name
\* matches only when case is ignored.
C5_Witness ==
    /\ last.op = "filter_assets"
    /\ asset_search_text # <<>>
    /\ \E row \in 1..Len(imported_assets_table) :
           imported_assets_table[row].hidden
    /\ \E row \in 1..Len(imported_assets_table) :
           /\ ~imported_assets_table[row].hidden
           /\ ~IsSubstring(asset_search_text, imported_assets_table[row].asset_name)

\* C5's second case: the search text was cleared and every row is visible.
C5_WitnessCleared ==
    /\ last.op = "filter_assets"
    /\ asset_search_text = <<>>
    /\ imported_assets_table # <<>>
    /\ \A row \in 1..Len(imported_assets_table) :
           ~imported_assets_table[row].hidden

\* C11 (as claimed): every command started through
\* run_after_effects_command_async leads to exactly one invocation of
\* thread_finished, however the command ends: never more than one, and
\* eventually one.
C11_EveryCommandReportsOnce ==
    /\ [](\A w \in DOMAIN threads : threads[w].calls <= 1)
    /\ \A w \in 1..MaxWorkers :
           [](w <= Len(commands)
                => <>(w \in DOMAIN threads /\ threads[w].calls = 1))

\* C20 (as claimed): at every moment each running worker is the one the
\* pipeline holds in self.thread.
C20_RunningWorkersAreHeld ==
    \A w \in 1..Len(commands) : Running(w) => w = thread

\* C12: in py_ae_v3.py, when the settings hold what save_settings wrote from
\* the two lists, load_settings yields the project entries whose file
\* exists, with the same path and created_by and in the same order, and an
\* imported_assets list equal to the saved one.
C12_SaveLoadRoundTrip ==
    [][(/\ program = "py_ae_v3"
        /\ ~window_open
        /\ window_open'
        /\ settings = v3_save_settings(settings, last_project_files,
                                       imported_assets))
       => /\ last_project_files'
               = SelectSeq(last_project_files, LAMBDA project : Exists(project.path))
          /\ imported_assets' = imported_assets]_vars

\* C12's case: both lists were saved with entries, a project file was then
\* deleted, and the program has loaded the settings again.
C12_Witness ==
    /\ program = "py_ae_v3"
    /\ imported_assets # <<>>
    /\ last_project_files # <<>>
    /\ last.op = "__init__"
    /\ last.stored > Len(last_project_files)

WellFormed(text, keys) ==
    /\ IsJsonList(text)
    /\ \A i \in 1..Len(JsonLoads(text)) :
           IsDict(JsonLoads(text)[i]) /\ keys \subseteq DOMAIN JsonLoads(text)[i]

\* C15 (as claimed): in py_ae_v3.py, load_settings completes whatever is
\* stored, and a stored last_project_files or imported_assets that is not a
\* well-formed JSON list of records with the expected keys leaves the
\* corresponding list empty.
C15_LoadSettingsParsesSafely ==
    [][(program = "py_ae_v3" /\ ~window_open /\ last'.op = "__init__")
       => /\ last'.outcome = "completed"
          /\ ~WellFormed(settings.last_project_files, {"path"})
                 => last_project_files' = <<>>
          /\ ~WellFormed(settings.imported_assets, {"path", "last_modified"})
                 => imported_assets' = <<>>]_vars

\* The project and the file the index of a delete_project call names, as the
\* handler finds them before it acts.
C13_Deletable ==
    /\ last'.answer = "Yes"
    /\ IF program = "py_ae"
       THEN /\ last'.index < Len(projects_table)
            /\ Exists(StrPath(projects_table[last'.index + 1].file_path))
       ELSE /\ last'.index < Len(last_project_files)
            /\ Exists(last_project_files[last'.index + 1].path)

\* C13: delete_project removes no file and leaves the projects table and the
\* project list as they are when the answer is not Yes, the index is out of
\* range, or the project's file does not exist.
C13_DeleteRefusedChangesNothing ==
    [][(last'.op = "delete_project" /\ ~C13_Deletable)
       => UNCHANGED <<disk, projects_table, last_project_files>>]_vars

\* C13's case: the user confirmed the deletion of a listed project whose
\* file is gone, and its row is still there.
C13_Witness ==
    /\ last.op = "delete_project"
    /\ last.answer = "Yes"
    /\ last.index < Len(projects_table)
    /\ ~Exists(StrPath(projects_table[last.index + 1].file_path))

\* C14 (as claimed): when the name dialog is cancelled or the name is empty,
\* create_new_project_connection adds no row and creates no file and no
\* folder.
C14_CancelledCreateChangesNothing ==
    [][(/\ last'.op = "create_new_project_connection"
        /\ ~last'.ok \/ last'.name = <<>>)
       => UNCHANGED <<projects_table, disk, dirs>>]_vars

\* populate_last_projects_table has just returned in py_ae_v3.py: it is the
\* last thing but save_settings() that the handler named in last did.
C16_Populated ==
    /\ program = "py_ae_v3"
    /\ \/ last.op = "create_new_project_connection" /\ last.ok /\ last.name # <<>>
       \/ last.op = "delete_project" /\ last.outcome = "deleted"
       \/ last.op = "__init__" /\ last.outcome = "completed"
       \/ last.op = "filter_projects"
            /\ (last.text = <<>> \/ last_project_files = <<>>)

C17_FilterKeepsPersistedList ==
    [][(program = "py_ae_v3" /\ last'.op = "filter_projects")
       => settings'.last_project_files = settings.last_project_files]_vars

\* C19 (as claimed): is_after_effects_running returns True exactly if some
\* process of the list has a name that contains 'AfterFX.exe', and False
\* otherwise, whatever the list, processes without a readable name included.
C19_RunningIffSomeNameContains ==
    last.op = "is_after_effects_running"
        => last.result =
               IF \E k \in 1..Len(last.procs) :
                      /\ last.procs[k] # None
                      /\ IsSubstring(ae_process_name, last.procs[k].text)
               THEN "True" ELSE "False"

====
